---- MODULE Spec2Model ----
(***************************************************************************)
(* A model of beetsplug/artistcountry.py: the CountryPlugin cache          *)
(* (load_cache / save_cache), the resolver get_artist_country with its     *)
(* walk up the MusicBrainz area hierarchy, and the two host hooks (the     *)
(* artistcountry subcommand and the artist_country template field).        *)
(***************************************************************************)
EXTENDS Integers, Sequences, FiniteSets, TLC

(***************************************************************************)
(* Bounds of the model.                                                    *)
(***************************************************************************)
\* Python's recursion limit, scaled down: the depth at which the recursive
\* walk of _find_top_area raises RecursionError.
MaxRecursion == 4
\* Largest value of the wall clock (datetime.now()); the clock stops there.
MaxClock == 1

(***************************************************************************)
(* Program constants: the shape of a MusicBrainz identifier.               *)
(***************************************************************************)
IdLen == 36
IdHyphens == 4

(***************************************************************************)
(* An identifier is a string, modelled by what the plugin looks at: its    *)
(* length, the number of hyphens in it, and a tag telling apart different  *)
(* strings of the same shape.                                              *)
(***************************************************************************)
MkId(tag, n, h) == [tag |-> tag, len |-> n, hyphens |-> h]

IdA == MkId("a", IdLen, IdHyphens)
IdB == MkId("b", IdLen, IdHyphens)
IdEmpty == MkId("", 0, 0)
IdShort == MkId("s", IdLen - 1, IdHyphens)
IdThreeHyphens == MkId("h3", IdLen, IdHyphens - 1)
IdFiveHyphens == MkId("h5", IdLen, IdHyphens + 1)

GoodIds == {IdA, IdB}
BadIds == {IdEmpty, IdShort, IdThreeHyphens, IdFiveHyphens}
Ids == GoodIds \cup BadIds

\* A guard that forgets the hyphens.
ShapeOkNoHyphens(id) == ~(id.len = 0) /\ id.len = IdLen

\* The guard of get_artist_country: `not mb_artistid or len(mb_artistid) != 36
\* or mb_artistid.count('-') != 4` is the negation of this.
ShapeOk(id) == ~(id.len = 0) /\ id.len = IdLen /\ id.hyphens = IdHyphens

(***************************************************************************)
(* Strings: str.lower() and datetime.isoformat().                          *)
(***************************************************************************)
Lower(s) ==
  CASE s = "US" -> "us"
    [] s = "GB" -> "gb"
    [] s = "FR" -> "fr"
    [] s = "ZZ" -> "zz"
    [] OTHER -> s

IsoFormat(n) == <<"t0", "t1", "t2", "t3">>[n + 1]

\* Python truthiness of a str
Truthy(s) == s # ""

\* F applied to the value of x, with x evaluated once.
Let(x, F(_)) == CHOOSE v \in {F(y) : y \in {x}} : TRUE

\* dict.get(key, default)
Get(d, k, default) == IF k \in DOMAIN d THEN d[k] ELSE default

(***************************************************************************)
(* The remote service (musicbrainzngs), as the plugin sees it.  A world w  *)
(* gives, for every well-formed identifier, the outcome of                 *)
(* get_artist_by_id, and for every area the outcome of get_area_by_id.     *)
(*   w.artist[id] = [t |-> "raise" | "ok", v |-> the artist dict]          *)
(*   w.area[a]    = [type, hasCodes, codes, rels, resp]                    *)
(* where type = "" stands for an area dict without a 'type' key, rels is   *)
(* the area's relation list (direction "" = no 'direction' key) and resp   *)
(* is "ok", "raise" (the lookup fails) or "nolist" (the answer carries no  *)
(* 'area-relation-list' key).                                              *)
(***************************************************************************)
Areas == {"a1", "a2", "a3"}

CodeList == "iso-3166-1-code-list"
RelList == "area-relation-list"

\* The dict describing area a wherever the service embeds it.
AreaDict(w, a) ==
  LET n == w.area[a]
      dom == {"id"} \cup (IF n.type # "" THEN {"type"} ELSE {})
                    \cup (IF n.hasCodes THEN {CodeList} ELSE {})
  IN  [k \in dom |-> CASE k = "id" -> a
                       [] k = "type" -> n.type
                       [] OTHER -> n.codes]

RelDict(w, r) ==
  LET dom == {"area"} \cup (IF r.dir # "" THEN {"direction"} ELSE {})
  IN  [k \in dom |-> IF k = "area" THEN AreaDict(w, r.to) ELSE r.dir]

Ok(v, n) == [t |-> "ok", v |-> v, exc |-> "", calls |-> n]
Raise(e, n) == [t |-> "raise", v |-> <<>>, exc |-> e, calls |-> n]

\* get_area_by_id(a, includes=['area-rels'])
get_area_by_id(w, a) ==
  LET n == w.area[a] IN
  CASE n.resp = "raise" -> Raise("WebServiceError", 1)
    [] n.resp = "nolist" -> Ok([area |-> [id |-> a]], 1)
    [] OTHER -> Ok([area |-> (RelList :> [i \in 1..Len(n.rels) |-> RelDict(w, n.rels[i])])], 1)

\* get_artist_by_id(id)
get_artist_by_id(w, id) ==
  IF w.artist[id].t = "raise"
  THEN Raise("WebServiceError", 1)
  ELSE Ok([artist |-> w.artist[id].v], 1)

(***************************************************************************)
(* The walk up the area hierarchy.  A result is Ok(value, calls) or        *)
(* Raise(exception, calls); calls counts the get_area_by_id calls made.    *)
(***************************************************************************)
\* _has_country_iso_code(area); the caller handles the KeyError of a
\* missing 'type'.
_has_country_iso_code(area) == area["type"] = "Country" /\ CodeList \in DOMAIN area

Backward(lst) == SelectSeq(lst, LAMBDA a : Get(a, "direction", "") = "backward")

AddCalls(r, n) == [r EXCEPT !.calls = @ + n]

\* The backward relations' areas, last relation first.
BackwardAreasReversed(lst) ==
  Let(Backward(lst), LAMBDA rels : [i \in 1..Len(rels) |-> rels[Len(rels) + 1 - i]["area"]])

\* new_area = [a['area'] for a in ... if a.get('direction', '') == 'backward']
BackwardAreas(lst) ==
  Let(Backward(lst), LAMBDA rels : [i \in 1..Len(rels) |-> rels[i]["area"]])

\* The walk giving up at the second level.
RECURSIVE _find_top_area_two(_, _, _)
_find_top_area_two(w, area, depth) ==
  IF depth > 2 THEN Raise("RecursionError", 0)
  ELSE Let(get_area_by_id(w, area["id"]), LAMBDA got :
    IF got.t = "raise" THEN got
    ELSE IF RelList \notin DOMAIN got.v["area"] THEN Raise("KeyError", 1)
    ELSE Let(BackwardAreas(got.v["area"][RelList]), LAMBDA new_area :
      IF new_area = <<>>
      THEN IF CodeList \in DOMAIN area THEN Ok(area[CodeList], 1)
           ELSE Raise("KeyError", 1)
      ELSE Let(new_area[1], LAMBDA nxt :
           IF "type" \notin DOMAIN nxt THEN Raise("KeyError", 1)
           ELSE IF _has_country_iso_code(nxt) THEN Ok(nxt[CodeList], 1)
           ELSE AddCalls(_find_top_area_two(w, nxt, depth + 1), 1))))

RECURSIVE _find_top_area(_, _, _)
_find_top_area(w, area, depth) ==
  IF depth > MaxRecursion THEN Raise("RecursionError", 0)
  ELSE Let(get_area_by_id(w, area["id"]), LAMBDA got :
    IF got.t = "raise" THEN got
    ELSE IF RelList \notin DOMAIN got.v["area"] THEN Raise("KeyError", 1)
    ELSE Let(BackwardAreas(got.v["area"][RelList]), LAMBDA new_area :
      IF new_area = <<>>
      THEN IF CodeList \in DOMAIN area THEN Ok(area[CodeList], 1)
           ELSE Raise("KeyError", 1)
      ELSE Let(new_area[1], LAMBDA nxt :
           IF "type" \notin DOMAIN nxt THEN Raise("KeyError", 1)
           ELSE IF _has_country_iso_code(nxt) THEN Ok(nxt[CodeList], 1)
           ELSE AddCalls(_find_top_area(w, nxt, depth + 1), 1))))

\* _country_from_area(area): countries[0]
_country_from_area(w, area) ==
  Let(_find_top_area(w, area, 1), LAMBDA countries :
    IF countries.t = "raise" THEN countries
    ELSE IF countries.v = <<>> THEN Raise("IndexError", countries.calls)
    ELSE Ok(countries.v[1], countries.calls))

(***************************************************************************)
(* Python values held in CountryPlugin._cache, and JSON text.              *)
(*   a value:  [t |-> "None" | "list" | "dict", v |-> ...]                 *)
(*   an entry of the dict: [t |-> "dict", v |-> the record's fields] or    *)
(*                         [t |-> "str",  s |-> a string]                  *)
(*   JSON text: [t |-> "null" | "array" | "object" | "string", s, m]: s is *)
(*   the content of a string, m an object's set of <<key, member>> pairs.  *)
(***************************************************************************)
PyNone == [t |-> "None", v |-> <<>>]
PyList == [t |-> "list", v |-> <<>>]
PyDict(f) == [t |-> "dict", v |-> f]
EmptyDict == PyDict(<<>>)

JNull == [t |-> "null", s |-> "", m |-> {}]
JArray == [t |-> "array", s |-> "", m |-> {}]
JString(s) == [t |-> "string", s |-> s, m |-> {}]
JObject(m) == [t |-> "object", s |-> "", m |-> m]

DictEntry(fields) == [t |-> "dict", s |-> "", v |-> fields]
StrEntry(s) == [t |-> "str", s |-> s, v |-> <<>>]

\* json.dump of one value of the mapping
DumpEntry(e) ==
  IF e.t = "dict"
  THEN JObject({<<JString(k), JString(e.v[k])>> : k \in DOMAIN e.v})
  ELSE JString(e.s)

\* json.dump(self._cache, f, indent=2)
JsonDump(c) ==
  CASE c.t = "dict" -> JObject({<<JString(id), DumpEntry(c.v[id])>> : id \in DOMAIN c.v})
    [] c.t = "list" -> JArray
    [] OTHER -> JNull

Keys(m) == {p[1].s : p \in m}
Member(m, k) == (CHOOSE p \in m : p[1].s = k)[2]

LoadEntry(j) ==
  IF j.t = "object"
  THEN DictEntry([k \in Keys(j.m) |-> Member(j.m, k).s])
  ELSE StrEntry(j.s)

\* json.load(f) of well-formed JSON text
JsonLoad(j) ==
  CASE j.t = "object" -> PyDict([id \in Keys(j.m) |-> LoadEntry(Member(j.m, id))])
    [] j.t = "array" -> PyList
    [] OTHER -> PyNone

(***************************************************************************)
(* The cache file: [kind, text] with kind "missing", "garbage" (not JSON), *)
(* "undecodable" (bytes that are not text) or "json".  The disk:           *)
(* [readable, write] with write "ok", "denied" (open fails) or "partial"   *)
(* (the write fails after the file was truncated).                         *)
(***************************************************************************)
NoFile == [kind |-> "missing", text |-> JNull]
Garbage == [kind |-> "garbage", text |-> JNull]
Undecodable == [kind |-> "undecodable", text |-> JNull]
JsonFile(j) == [kind |-> "json", text |-> j]

\* load_cache without the test of self._cache: the file is read on every call.
load_cache_always(c, f, d) ==
  IF f.kind = "missing" THEN [cache |-> EmptyDict, exc |-> "", read |-> FALSE]
  ELSE IF ~d.readable THEN [cache |-> EmptyDict, exc |-> "", read |-> TRUE]
  ELSE IF f.kind = "garbage" THEN [cache |-> EmptyDict, exc |-> "", read |-> TRUE]
  ELSE IF f.kind = "undecodable" THEN [cache |-> c, exc |-> "UnicodeDecodeError", read |-> TRUE]
  ELSE [cache |-> JsonLoad(f.text), exc |-> "", read |-> TRUE]

\* load_cache: [cache, exc, read]; read tells whether the file was opened.
load_cache(c, f, d) ==
  IF c.t # "None" THEN [cache |-> c, exc |-> "", read |-> FALSE]
  ELSE IF f.kind = "missing" THEN [cache |-> EmptyDict, exc |-> "", read |-> FALSE]
  ELSE IF ~d.readable THEN [cache |-> EmptyDict, exc |-> "", read |-> TRUE]
  ELSE IF f.kind = "garbage" THEN [cache |-> EmptyDict, exc |-> "", read |-> TRUE]
  ELSE IF f.kind = "undecodable" THEN [cache |-> c, exc |-> "UnicodeDecodeError", read |-> TRUE]
  ELSE [cache |-> JsonLoad(f.text), exc |-> "", read |-> TRUE]

\* save_cache: the file afterwards
save_cache(c, f, d) ==
  IF c.t = "None" THEN f
  ELSE CASE d.write = "denied" -> f
         [] d.write = "partial" -> Garbage
         [] OTHER -> JsonFile(JsonDump(c))

(***************************************************************************)
(* get_artist_country.  A result is                                        *)
(*   [ret, exc, cache, file, artist, area, read]                           *)
(* ret the returned string, exc the exception that escapes ("" if none),   *)
(* cache and file the instance's _cache and the cache file afterwards,     *)
(* artist and area the numbers of get_artist_by_id and get_area_by_id      *)
(* calls made, read whether the cache file was opened for reading.         *)
(***************************************************************************)
Result(ret, exc, c, f, na, nr, rd) ==
  [ret |-> ret, exc |-> exc, cache |-> c, file |-> f,
   artist |-> na, area |-> nr, read |-> rd]

\* An assignment that replaces the mapping by the new record alone.
PutAlone(c, id, fields) ==
  PyDict([k \in {id} |-> DictEntry(fields)])

Put(c, id, fields) ==
  PyDict([k \in DOMAIN c.v \cup {id} |->
            IF k = id THEN DictEntry(fields) ELSE c.v[k]])

\* Caching the country as the service spelt it, returning it lowercased.
CacheResultRaw(c, f, d, now, id, artist, country, nr, rd) ==
  LET low == IF Truthy(country) THEN Lower(country) ELSE "" IN
  IF c.t # "dict"
  THEN Result("", "TypeError", c, f, 1, nr, rd)
  ELSE Let(Put(c, id, [country |-> country, cached |-> IsoFormat(now),
                       name |-> Get(artist, "name", "")]),
           LAMBDA c2 : Result(low, "", c2, save_cache(c2, f, d), 1, nr, rd))

\* Lines 97-106: cache the result (even if empty), save, return.
CacheResult(c, f, d, now, id, artist, country, nr, rd) ==
  LET low == IF Truthy(country) THEN Lower(country) ELSE "" IN
  IF c.t # "dict"
  THEN \* the item assignment raises TypeError, and raises it again in the handler
       Result("", "TypeError", c, f, 1, nr, rd)
  ELSE Let(Put(c, id, [country |-> low, cached |-> IsoFormat(now),
                       name |-> Get(artist, "name", "")]),
           LAMBDA c2 : Result(low, "", c2, save_cache(c2, f, d), 1, nr, rd))

\* A handler that returns '' without caching the failure.
CacheFailureForgotten(c, f, d, now, id, e, rd) ==
  Result("", "", c, f, 1, 0, rd)

\* Lines 108-118: cache the failure, save, return ''.
CacheFailure(c, f, d, now, id, e, rd) ==
  IF c.t # "dict"
  THEN Result("", "TypeError", c, f, 1, 0, rd)
  ELSE Let(Put(c, id, [country |-> "", cached |-> IsoFormat(now), error |-> e]),
           LAMBDA c2 : Result("", "", c2, save_cache(c2, f, d), 1, 0, rd))

\* Lines 85-118: query MusicBrainz.
\* Lines 89-95: the country of the artist record, or else of its area;
\* an exception of the walk leaves the country as it was.
CountryOf(w, artist) ==
  Let(Get(artist, "country", ""), LAMBDA country :
    IF ~Truthy(country) /\ "area" \in DOMAIN artist
    THEN Let(_country_from_area(w, artist["area"]), LAMBDA walk :
           IF walk.t = "ok" THEN walk ELSE Ok(country, walk.calls))
    ELSE Ok(country, 0))

\* The query without the inner try: a failure of the walk reaches the
\* outer handler.
QueryUnguarded(c, f, d, w, now, id, rd) ==
  Let(get_artist_by_id(w, id), LAMBDA got :
    IF got.t = "raise" THEN CacheFailure(c, f, d, now, id, got.exc, rd)
    ELSE Let(Get(got.v["artist"], "country", ""), LAMBDA country :
      IF ~Truthy(country) /\ "area" \in DOMAIN got.v["artist"]
      THEN Let(_country_from_area(w, got.v["artist"]["area"]), LAMBDA walk :
             IF walk.t = "raise" THEN CacheFailure(c, f, d, now, id, walk.exc, rd)
             ELSE CacheResult(c, f, d, now, id, got.v["artist"], walk.v, walk.calls, rd))
      ELSE CacheResult(c, f, d, now, id, got.v["artist"], country, 0, rd)))

Query(c, f, d, w, now, id, rd) ==
  Let(get_artist_by_id(w, id), LAMBDA got :
    IF got.t = "raise" THEN CacheFailure(c, f, d, now, id, got.exc, rd)
    ELSE Let(CountryOf(w, got.v["artist"]), LAMBDA country :
           CacheResult(c, f, d, now, id, got.v["artist"], country.v, country.calls, rd)))

get_artist_country(c, f, d, w, now, id) ==
  IF ~ShapeOk(id) THEN Result("", "", c, f, 0, 0, FALSE)
  ELSE
  Let(load_cache(c, f, d), LAMBDA ld :
    IF ld.exc # "" THEN Result("", ld.exc, ld.cache, f, 0, 0, ld.read)
    ELSE IF ld.cache.t = "None" THEN Result("", "TypeError", ld.cache, f, 0, 0, ld.read)
    ELSE IF ld.cache.t = "dict" /\ id \in DOMAIN ld.cache.v
    THEN IF ld.cache.v[id].t = "dict"
         THEN Result(Get(ld.cache.v[id].v, "country", ""), "", ld.cache, f, 0, 0, ld.read)
         ELSE Result("", "AttributeError", ld.cache, f, 0, 0, ld.read)
    ELSE Query(ld.cache, f, d, w, now, id, ld.read))

(***************************************************************************)
(* The state.                                                              *)
(***************************************************************************)
VARIABLES
  cache,            \* _cache of each CountryPlugin instance
  plugin_instance,  \* whether the global _plugin_instance has been created
  file,             \* the cache file artistcountry.json
  disk,             \* whether the file can be read and written
  world,            \* what the remote service answers
  now,              \* the wall clock
  items,            \* the library items
  queried,          \* the identifiers get_artist_by_id was called for in this process
  last,             \* the last operation and the calls it made
  crashed           \* an exception escaped: the command has failed

vars == <<cache, plugin_instance, file, disk, world, now, items,
          queried, last, crashed>>

\* "host" is the instance the host application registers (self in
\* commands()), "tmpl" the one get_plugin_instance() creates.
Inst == {"host", "tmpl"}


(***************************************************************************)
(* Initial states: the cache file a previous run or the user left, the     *)
(* remote service's data, the library.                                     *)
(***************************************************************************)
OldRecord == [country |-> "gb", cached |-> "t0", name |-> "Old"]

\* The files the plugin itself leaves behind: none, one whose writing
\* failed half way, one an earlier run saved.
Files ==
  { NoFile, Garbage, JsonFile(JsonDump(Put(EmptyDict, IdA, OldRecord))) }

\* Files changed from outside: bytes that are no text, JSON that is not a
\* mapping of records.
ForeignFiles ==
  { Undecodable, JsonFile(JNull), JsonFile(JArray),
    JsonFile(JObject({<<JString(IdA), JString("gb")>>})) }

Disks == { [readable |-> TRUE, write |-> "ok"],
           [readable |-> FALSE, write |-> "ok"],
           [readable |-> TRUE, write |-> "denied"],
           [readable |-> TRUE, write |-> "partial"] }

Node(type, hasCodes, codes, rels, resp) ==
  [type |-> type, hasCodes |-> hasCodes, codes |-> codes, rels |-> rels, resp |-> resp]
Rel(dir, to) == [dir |-> dir, to |-> to]
Answer(v) == [t |-> "ok", v |-> v]
NoAnswer == [t |-> "raise", v |-> <<>>]

\* The service knows no artist under a malformed identifier.
Artists(a, b) == [id \in Ids |-> IF id = IdA THEN a ELSE IF id = IdB THEN b ELSE NoAnswer]

\* a1, part of the subdivision a2, part of the country a3
Chain ==
  [a \in Areas |->
     CASE a = "a1" -> Node("City", FALSE, <<>>, <<Rel("forward", "a3"), Rel("backward", "a2")>>, "ok")
       [] a = "a2" -> Node("Subdivision", FALSE, <<>>, <<Rel("backward", "a3")>>, "ok")
       [] OTHER -> Node("Country", TRUE, <<"GB", "FR">>, <<>>, "nolist")]

\* a1 is part of a2 (a region with no parent) and of the country a3
Fork ==
  [a \in Areas |->
     CASE a = "a1" -> Node("City", FALSE, <<>>, <<Rel("backward", "a2"), Rel("backward", "a3")>>, "ok")
       [] a = "a2" -> Node("Region", FALSE, <<>>, <<>>, "ok")
       [] OTHER -> Node("Country", TRUE, <<"US">>, <<>>, "ok")]

\* a1 and a2 are part of each other; the lookup of a3 fails
Cycle ==
  [a \in Areas |->
     CASE a = "a1" -> Node("City", FALSE, <<>>, <<Rel("backward", "a2")>>, "ok")
       [] a = "a2" -> Node("Subdivision", FALSE, <<>>, <<Rel("backward", "a1")>>, "ok")
       [] OTHER -> Node("Country", TRUE, <<>>, <<>>, "raise")]

Worlds ==
  { [artist |-> Artists(Answer([name |-> "Ann", country |-> "US"]), NoAnswer),
     area |-> Chain],
    [artist |-> Artists(Answer([name |-> "Ann", area |-> AreaDict([area |-> Chain], "a1")]),
                        Answer([name |-> "Bob"])),
     area |-> Chain],
    [artist |-> Artists(Answer([name |-> "Ann", area |-> AreaDict([area |-> Fork], "a1")]),
                        Answer([country |-> "", area |-> AreaDict([area |-> Fork], "a3")])),
     area |-> Fork],
    [artist |-> Artists(Answer([name |-> "Ann", area |-> AreaDict([area |-> Cycle], "a1")]),
                        Answer([name |-> "Bob", area |-> AreaDict([area |-> Cycle], "a3")])),
     area |-> Cycle] }

Item(id, stored) ==
  [mb_artistid |-> id, artist_country |-> stored, stored |-> stored, stores |-> 0]

\* The library: an item to resolve, one that already carries a stored
\* country, one with a malformed identifier.
Library ==
  <<Item(IdA, ""), Item(IdB, "fr"), Item(IdShort, "")>>

ItemIx == DOMAIN Library

\* The sets of items the queries of the subcommand match.
Queries == { {}, {1, 2}, {2, 3}, {1, 2, 3} }

Idle ==
  [op |-> "none", inst |-> "host", id |-> IdEmpty, ret |-> "", exc |-> "",
   calls |-> 0, artist |-> 0, area |-> 0, read |-> FALSE, hit |-> FALSE,
   again |-> FALSE, changed |-> FALSE, sel |-> {}, resolved |-> {}, updated |-> 0]

InitWith(files, worlds) ==
  /\ cache = [i \in Inst |-> PyNone]
  /\ plugin_instance = FALSE
  /\ file \in files
  /\ disk = [readable |-> TRUE, write |-> "ok"]
  /\ world \in worlds
  /\ now = 0
  /\ items = Library
  /\ queried = {}
  /\ last = Idle
  /\ crashed = FALSE

Init == InitWith(Files, Worlds)

(***************************************************************************)
(* Area hierarchies for the walk: every area is a country with a code      *)
(* list (its own code first), a country with an empty list, a country      *)
(* without a list, a subdivision, or an area without a type; its lookup    *)
(* fails, answers without a relation list, or lists up to two relations.   *)
(***************************************************************************)
CodeOf(a) == CASE a = "a1" -> "US" [] a = "a2" -> "GB" [] OTHER -> "FR"

Profiles(a) ==
  { <<"Country", TRUE, <<CodeOf(a), "ZZ">> >>,
    <<"Country", TRUE, <<>> >>,
    <<"Country", FALSE, <<>> >>,
    <<"Subdivision", FALSE, <<>> >>,
    <<"", FALSE, <<>> >> }

RelLists(a) ==
  {<<>>}
    \cup {<<Rel("backward", x)>> : x \in Areas \ {a}}
    \cup {<<Rel("forward", x), Rel("backward", y)>> :
            <<x, y>> \in {q \in (Areas \ {a}) \X (Areas \ {a}) : q[1] # q[2]}}
    \cup {<<Rel("backward", x), Rel("backward", y)>> :
            <<x, y>> \in {q \in (Areas \ {a}) \X (Areas \ {a}) : q[1] # q[2]}}

Nodes(a) ==
  {Node(p[1], p[2], p[3], r, "ok") : p \in Profiles(a), r \in RelLists(a)}
    \cup {Node(p[1], p[2], p[3], <<>>, x) : p \in Profiles(a), x \in {"raise", "nolist"}}

Hierarchies ==
  { [a \in Areas |-> CASE a = "a1" -> x [] a = "a2" -> y [] OTHER -> z] :
      x \in Nodes("a1"), y \in Nodes("a2"), z \in Nodes("a3") }

\* The artist IdA has no country of its own and lives in area a1.
WalkWorlds ==
  { [artist |-> Artists(Answer([name |-> "Ann", area |-> AreaDict([area |-> h], "a1")]),
                        NoAnswer),
     area |-> h] : h \in Hierarchies }

InitWalk == InitWith({NoFile}, WalkWorlds)

(***************************************************************************)
(* A library of three artists, none with a stored country, so that each    *)
(* instance can resolve an identifier the other one does not hold.         *)
(***************************************************************************)
IdC == MkId("c", IdLen, IdHyphens)

LibraryThree == <<Item(IdA, ""), Item(IdB, ""), Item(IdC, "")>>

\* The worlds, the service also knowing the artist IdC.
WorldsThree ==
  { [w EXCEPT !.artist =
       [id \in Ids \cup {IdC} |->
          IF id = IdC THEN Answer([name |-> "Cy", country |-> "GB"]) ELSE w.artist[id]]]
    : w \in Worlds }

InitThree ==
  /\ cache = [i \in Inst |-> PyNone]
  /\ plugin_instance = FALSE
  /\ file \in Files
  /\ disk = [readable |-> TRUE, write |-> "ok"]
  /\ world \in WorldsThree
  /\ now = 0
  /\ items = LibraryThree
  /\ queried = {}
  /\ last = Idle
  /\ crashed = FALSE

\* The cache file may also hold what the plugin never wrote.
InitForeign == InitWith(Files \cup ForeignFiles, Worlds)

(***************************************************************************)
(* One get_artist_country call on instance i, threaded through a running   *)
(* state s: the _cache of every instance, the file, the items, the call    *)
(* counts, and what the current operation did so far (the result of its    *)
(* latest call, the calls it made, the items it resolved and updated).     *)
(* In last, hit tells whether the latest call found its identifier cached, *)
(* again whether get_artist_by_id was called for an identifier it had      *)
(* been called for before in this process, changed whether the operation   *)
(* changed any instance's _cache or the cache file.                        *)
(***************************************************************************)
\* Time passes between two readings of datetime.now().
Advance(n) == IF n < MaxClock THEN n + 1 ELSE n

Running ==
  [cache |-> cache, file |-> file, items |-> items, queried |-> queried,
   now |-> now, again |-> FALSE, inst |-> "host", id |-> IdEmpty, ret |-> "", exc |-> "",
   calls |-> 0, artist |-> 0, area |-> 0, read |-> FALSE, hit |-> FALSE,
   sel |-> {}, resolved |-> {}, updated |-> 0]

\* `mb_artistid in cache` as the call finds it, once the cache is loaded
Hit(c, f, d, id) ==
  /\ ShapeOk(id)
  /\ Let(load_cache(c, f, d), LAMBDA ld :
         ld.exc = "" /\ ld.cache.t = "dict" /\ id \in DOMAIN ld.cache.v)

Resolve(s, i, id) ==
  Let(get_artist_country(s.cache[i], s.file, disk, world, s.now, id), LAMBDA r :
    [s EXCEPT !.cache[i] = r.cache,
              !.file = r.file,
              !.queried = IF r.artist > 0 THEN @ \cup {id} ELSE @,
              !.again = @ \/ (r.artist > 0 /\ id \in s.queried),
              !.now = IF r.artist > 0 THEN Advance(@) ELSE @,
              !.inst = i, !.id = id, !.ret = r.ret, !.exc = r.exc,
              !.calls = @ + 1, !.artist = @ + r.artist, !.area = @ + r.area,
              !.read = r.read, !.hit = Hit(s.cache[i], s.file, disk, id)])

Commit(s, op, ret) ==
  /\ cache' = s.cache
  /\ file' = s.file
  /\ items' = s.items
  /\ queried' = s.queried
  /\ now' = s.now
  /\ crashed' = (s.exc # "")
  /\ last' = [op |-> op, inst |-> s.inst, id |-> s.id, ret |-> ret, exc |-> s.exc,
              calls |-> s.calls, artist |-> s.artist, area |-> s.area,
              read |-> s.read, hit |-> s.hit, again |-> s.again,
              changed |-> (s.cache # cache \/ s.file # file),
              sel |-> s.sel, resolved |-> s.resolved, updated |-> s.updated]
  /\ UNCHANGED <<disk, world>>

(***************************************************************************)
(* The operations.                                                         *)
(***************************************************************************)
\* self.get_artist_country(id) on the host's instance
CallHost(id) ==
  /\ ~crashed
  /\ \E s \in {Resolve(Running, "host", id)} : Commit(s, "call", s.ret)
  /\ UNCHANGED plugin_instance

\* The body of the loop without the test of the stored attribute.
artistcountry_item_noskip(s, k) ==
  Let(Resolve(s, "host", s.items[k].mb_artistid), LAMBDA s2 :
    IF s2.exc = "" /\ Truthy(s2.ret)
    THEN [s2 EXCEPT !.items[k].stored = s2.ret,
                    !.items[k].stores = @ + 1,
                    !.resolved = @ \cup {k},
                    !.updated = @ + 1]
    ELSE [s2 EXCEPT !.resolved = @ \cup {k}])

\* The body of the loop of artistcountry_func for item k
artistcountry_item(s, k) ==
  IF Truthy(s.items[k].stored) THEN s
  ELSE Let(Resolve(s, "host", s.items[k].mb_artistid), LAMBDA s2 :
         IF s2.exc = "" /\ Truthy(s2.ret)
         THEN [s2 EXCEPT !.items[k].stored = s2.ret,
                         !.items[k].stores = @ + 1,
                         !.resolved = @ \cup {k},
                         !.updated = @ + 1]
         ELSE [s2 EXCEPT !.resolved = @ \cup {k}])

\* for item in items: ..., over the items of sel from index k on
RECURSIVE artistcountry_loop(_, _, _)
artistcountry_loop(s, sel, k) ==
  IF k > Len(s.items) \/ s.exc # "" THEN s
  ELSE IF k \in sel
  THEN Let(artistcountry_item(s, k), LAMBDA s2 : artistcountry_loop(s2, sel, k + 1))
  ELSE artistcountry_loop(s, sel, k + 1)

\* artistcountry_func(lib, opts, args), the query matching the items of sel
Subcommand(sel) ==
  /\ ~crashed
  /\ \E s \in {artistcountry_loop([Running EXCEPT !.sel = sel], sel, 1)} :
       Commit(s, "subcommand", "")
  /\ UNCHANGED plugin_instance

\* _tmpl_country with a call of item.store() after the assignment.
TmplCountryStoring(k) ==
  /\ ~crashed
  /\ IF Truthy(items[k].artist_country)
     THEN /\ Commit([Running EXCEPT !.inst = "tmpl"], "tmpl", items[k].artist_country)
          /\ UNCHANGED plugin_instance
     ELSE /\ \E s \in {Resolve(Running, "tmpl", items[k].mb_artistid)} :
               IF s.exc = "" /\ Truthy(s.ret)
               THEN Commit([s EXCEPT !.items[k].artist_country = s.ret,
                                     !.items[k].stored = s.ret,
                                     !.items[k].stores = @ + 1,
                                     !.resolved = {k}], "tmpl", s.ret)
               ELSE Commit([s EXCEPT !.resolved = {k}], "tmpl", s.ret)
          /\ plugin_instance' = TRUE

\* _tmpl_country without the test of the attribute on the item.
TmplCountryEager(k) ==
  /\ ~crashed
  /\ \E s \in {Resolve(Running, "tmpl", items[k].mb_artistid)} :
       IF s.exc = "" /\ Truthy(s.ret)
       THEN Commit([s EXCEPT !.items[k].artist_country = s.ret,
                             !.resolved = {k}], "tmpl", s.ret)
       ELSE Commit([s EXCEPT !.resolved = {k}], "tmpl", s.ret)
  /\ plugin_instance' = TRUE

\* _tmpl_country(item) for item k
TmplCountry(k) ==
  /\ ~crashed
  /\ IF Truthy(items[k].artist_country)
     THEN /\ Commit([Running EXCEPT !.inst = "tmpl"], "tmpl", items[k].artist_country)
          /\ UNCHANGED plugin_instance
     ELSE /\ \E s \in {Resolve(Running, "tmpl", items[k].mb_artistid)} :
               IF s.exc = "" /\ Truthy(s.ret)
               THEN Commit([s EXCEPT !.items[k].artist_country = s.ret,
                                     !.resolved = {k}], "tmpl", s.ret)
               ELSE Commit([s EXCEPT !.resolved = {k}], "tmpl", s.ret)
          /\ plugin_instance' = TRUE

\* The process ends and a new one starts: the instances and the item
\* objects are gone, the cache file and the library database stay.
Restart ==
  /\ cache' = [i \in Inst |-> PyNone]
  /\ plugin_instance' = FALSE
  /\ items' = [k \in DOMAIN items |-> [items[k] EXCEPT !.artist_country = items[k].stored]]
  /\ queried' = {}
  /\ last' = [Idle EXCEPT !.op = "restart"]
  /\ crashed' = FALSE
  /\ UNCHANGED <<file, disk, world, now>>

\* The environment: the disk's condition changes.
SetDisk(d) ==
  /\ d # disk
  /\ disk' = d
  /\ UNCHANGED <<cache, plugin_instance, file, world, now, items, queried, last, crashed>>

Next ==
  \/ \E id \in Ids : CallHost(id)
  \/ \E sel \in Queries : Subcommand(sel)
  \/ \E k \in ItemIx : TmplCountry(k)
  \/ Restart
  \/ \E d \in Disks : SetDisk(d)

\* The operations with a disk that stays readable and writable.
NextStable ==
  \/ \E id \in Ids : CallHost(id)
  \/ \E sel \in Queries : Subcommand(sel)
  \/ \E k \in ItemIx : TmplCountry(k)
  \/ Restart

Spec == Init /\ [][Next]_vars
SpecForeign == InitForeign /\ [][Next]_vars
SpecStable == Init /\ [][NextStable]_vars

\* Three artists to resolve, on a disk that stays readable and writable.
SpecThree == InitThree /\ [][NextStable]_vars

\* One resolution of IdA in every hierarchy.
NextWalk == \E id \in {IdA} : CallHost(id)
SpecWalk == InitWalk /\ [][NextWalk]_vars

(***************************************************************************)
(* Properties.                                                             *)
(***************************************************************************)
InCache(c, id) == c.t = "dict" /\ id \in DOMAIN c.v

\* The step is a template evaluation that resolves item k.
TmplResolves(k) == TmplCountry(k) /\ ~Truthy(items[k].artist_country)

\* The items of sel the subcommand resolves remotely unless cached.
Unstored(sel) == {k \in sel : ~Truthy(items[k].stored) /\ ShapeOk(items[k].mb_artistid)}

\* C1: once an identifier has a record in the cache, no later
\* get_artist_country call for it calls get_artist_by_id or get_area_by_id,
\* and so no identifier is looked up twice in one process.
C1_CachedNeverQueriedAgain ==
  /\ (last.op \in {"call", "tmpl"} /\ last.hit) => (last.artist = 0 /\ last.area = 0)
  /\ ~last.again

\* C2: the template field and the subcommand resolve through the same
\* cache: an identifier one path already holds is resolved by the other
\* path without a remote call.
C2_SameCacheBothPaths ==
  [][ /\ \A id \in GoodIds :
           (CallHost(id) /\ InCache(cache["tmpl"], id)) => last'.artist = 0
      /\ \A sel \in Queries :
           (Subcommand(sel) /\ \A k \in Unstored(sel) :
                                 InCache(cache["tmpl"], items[k].mb_artistid))
           => last'.artist = 0
      /\ \A k \in ItemIx :
           (TmplResolves(k) /\ InCache(cache["host"], items[k].mb_artistid))
           => last'.artist = 0 ]_vars

\* C3: a call with a missing or malformed identifier returns '' without a
\* remote call, without raising and without loading or changing the cache
\* or the cache file.
C3_MalformedIdIsEmpty ==
  (last.calls = 1 /\ last.id \in BadIds) =>
    /\ last.ret = "" /\ last.exc = "" /\ ~crashed
    /\ last.artist = 0 /\ last.area = 0
    /\ ~last.read /\ ~last.changed

C3_Witness ==
  /\ last.op = "call" /\ last.id = IdThreeHyphens /\ last.ret = ""
  /\ cache["host"].t = "None" /\ file.kind = "json"

\* The last call left a record for id in the cache of instance i.
Recorded(i, id) ==
  /\ last.exc = ""
  /\ last.artist = 1
  /\ InCache(cache[i], id)
  /\ cache[i].v[id].t = "dict"
  /\ cache[i].v[id].v["country"] = last.ret
  /\ world.artist[id].t = "raise" =>
       /\ last.ret = ""
       /\ cache[i].v[id].v["country"] = ""
       /\ "error" \in DOMAIN cache[i].v[id].v
  /\ \E next \in {get_artist_country(cache[i], file, disk, world, now, id)} :
       next.artist = 0 /\ next.area = 0 /\ next.ret = last.ret

\* C4: a call with a well-formed identifier that is not cached ends with a
\* record for it in the cache, whatever the remote outcome; when
\* get_artist_by_id raises, the call returns '' and the record is a
\* negative entry (country ''), which answers the next call.
C4_EveryOutcomeCached ==
  (last.op \in {"call", "tmpl"} /\ last.calls = 1 /\ last.id \in GoodIds /\ ~last.hit)
    => Recorded(last.inst, last.id)

C4_Witness ==
  /\ last.op = "call" /\ last.id = IdB /\ last.artist = 1 /\ last.ret = ""
  /\ world.artist[IdB].t = "raise"
  /\ InCache(cache["host"], IdB)
  /\ "error" \in DOMAIN cache["host"].v[IdB].v

(***************************************************************************)
(* The area hierarchy as the service describes it: the areas a is part of  *)
(* are the targets of its backward relations, in the order of its relation *)
(* list.                                                                   *)
(***************************************************************************)
Parents(a) ==
  IF world.area[a].resp = "ok"
  THEN SelectSeq(world.area[a].rels, LAMBDA r : r.dir = "backward")
  ELSE <<>>

ParentSet(a) == {Parents(a)[i].to : i \in 1..Len(Parents(a))}

RECURSIVE Closure(_, _)
Closure(S, n) == IF n = 0 THEN S ELSE Closure(S \cup UNION {ParentSet(a) : a \in S}, n - 1)

\* a and everything above it; everything strictly above it
Above(a) == Closure({a}, Cardinality(Areas))
StrictlyAbove(a) == Closure(ParentSet(a), Cardinality(Areas))

IsCountry(a) ==
  world.area[a].type = "Country" /\ world.area[a].hasCodes /\ world.area[a].codes # <<>>

FirstCode(a) == Lower(world.area[a].codes[1])

\* The last call looked IdA up remotely, and the record it got has no
\* country but an area.
ResolvedByArea ==
  /\ last.op = "call" /\ last.id = IdA /\ last.artist = 1
  /\ world.artist[IdA].t = "ok"
  /\ ~Truthy(Get(world.artist[IdA].v, "country", ""))
  /\ "area" \in DOMAIN world.artist[IdA].v

ArtistArea == world.artist[IdA].v["area"]["id"]

\* Every area above the artist's answers its lookup with a relation list,
\* has a type, has no empty code list, and is not part of itself.
WellFormed ==
  \A a \in Above(ArtistArea) :
    /\ world.area[a].resp = "ok" /\ world.area[a].type # ""
    /\ world.area[a].hasCodes => world.area[a].codes # <<>>
    /\ a \notin StrictlyAbove(a)

\* The countries among the artist's area and the areas above it.
Countries == {a \in Above(ArtistArea) : IsCountry(a)}

Tops == {t \in Above(ArtistArea) : ParentSet(t) = {}}

\* The first area typed Country and carrying a code list on the chain of
\* first backward relations from a, at most n areas up; "none" if the chain
\* ends (or meets an area without a type) before.
RECURSIVE FirstCountry(_, _)
FirstCountry(a, n) ==
  IF n = 0 \/ Parents(a) = <<>> THEN "none"
  ELSE LET p == Parents(a)[1].to IN
       IF world.area[p].type = "" THEN "none"
       ELSE IF world.area[p].type = "Country" /\ world.area[p].hasCodes THEN p
       ELSE FirstCountry(p, n - 1)

\* C5 as stated: when the hierarchy above the artist's area, areas with
\* several backward relations included, ends in an area of type Country
\* with a code list, its only country, the call returns the lowercased
\* first code of that area.
C5_TopCountryCode ==
  (ResolvedByArea /\ WellFormed) =>
    \A c \in Tops : (IsCountry(c) /\ Countries = {c}) => last.ret = FirstCode(c)

\* C5: the call returns the lowercased first code of the first area typed
\* Country with a code list on the chain of first backward relations from
\* the artist's area, or of the artist's own area when that is a country
\* with no backward relation.
C5_FirstCountryOnFirstChain ==
  ResolvedByArea =>
    /\ \A p \in Areas :
         (FirstCountry(ArtistArea, MaxRecursion) = p /\ world.area[p].codes # <<>>)
           => last.ret = FirstCode(p)
    /\ (world.area[ArtistArea].resp = "ok" /\ Parents(ArtistArea) = <<>>
          /\ IsCountry(ArtistArea))
           => last.ret = FirstCode(ArtistArea)

C5_Witness ==
  /\ ResolvedByArea /\ last.area = 2 /\ last.ret = "fr"
  /\ Len(Parents(ArtistArea)) = 2
  /\ Parents(ArtistArea)[1].to = "a2" /\ ~IsCountry("a2")
  /\ FirstCountry(ArtistArea, MaxRecursion) = "a3"

\* The cache file as a process that starts now would load it.
FreshLoad == load_cache(PyNone, file, disk).cache

\* C6: whatever calls a process has made, a fresh process that loads the
\* cache file obtains the mapping the process holds in memory, the same
\* identifiers with the same records.
C6_RoundTripAcrossRestart ==
  \A i \in Inst : cache[i].t # "None" => FreshLoad = cache[i]

\* C7: an evaluation of the template field never calls item.store(): with
\* the attribute already on the item nothing changes; a new non-empty
\* country is set on the item in memory only; an empty resolution leaves
\* the item unchanged.
C7_TemplateNeverStores ==
  [][ (last'.op = "tmpl" /\ disk' = disk) =>
        /\ \A k \in ItemIx :
             /\ items'[k].stored = items[k].stored
             /\ items'[k].stores = items[k].stores
             /\ k \notin last'.resolved => items'[k] = items[k]
             /\ (k \in last'.resolved /\ Truthy(last'.ret))
                  => items'[k].artist_country = last'.ret
        /\ ~Truthy(last'.ret) => items' = items
        /\ last'.calls = 0 => (items' = items /\ cache' = cache /\ file' = file) ]_vars

C7_Witness ==
  /\ last.op = "tmpl" /\ last.calls = 1 /\ last.artist = 1 /\ Truthy(last.ret)
  /\ \E k \in last.resolved :
       /\ items[k].artist_country = last.ret
       /\ items[k].stored = "" /\ items[k].stores = 0

\* The country the host's instance holds for item k's artist, '' if none.
Resolution(c, k) ==
  IF InCache(c, items[k].mb_artistid)
  THEN Get(c.v[items[k].mb_artistid].v, "country", "")
  ELSE ""

\* C8: the subcommand leaves an item with a stored artist_country
\* unresolved, unmodified and unstored; it resolves every other matching
\* item, and sets and stores the attribute exactly when the resolution is
\* not empty; the count it reports is the number of store() calls.
C8_SubcommandStoresResolved ==
  [][ (last'.op = "subcommand" /\ disk' = disk) =>
        /\ \A k \in ItemIx \ last'.sel : items'[k] = items[k] /\ k \notin last'.resolved
        /\ \A k \in last'.sel :
             IF Truthy(items[k].stored)
             THEN items'[k] = items[k] /\ k \notin last'.resolved
             ELSE /\ k \in last'.resolved
                  /\ items'[k].stored = Resolution(cache'["host"], k)
                  /\ items'[k].stores =
                       items[k].stores + (IF Truthy(Resolution(cache'["host"], k)) THEN 1 ELSE 0)
        /\ last'.updated = Cardinality({k \in ItemIx : items'[k].stores # items[k].stores}) ]_vars

C8_Witness ==
  /\ last.op = "subcommand" /\ last.sel = {1, 2, 3} /\ last.resolved = {1, 3}
  /\ last.updated = 1 /\ last.calls = 2
  /\ Truthy(items[1].stored) /\ items[1].stores = 1
  /\ items[2].stores = 0 /\ items[3].stored = "" /\ items[3].stores = 0

\* C9: no operation surfaces an error: whatever the remote outcome and the
\* condition of the cache file, get_artist_country returns a string and
\* raises nothing.
C9_NoErrorSurfaces == last.exc = "" /\ ~crashed

\* C10: with writes that succeed, whenever get_artist_country has returned
\* the cache file holds the cache of the instance that did the lookup, and
\* no record is in memory without being on disk.
C10_PersistedAfterEveryMutation ==
  /\ (last.op \in {"call", "tmpl"} /\ last.calls = 1 /\ last.id \in GoodIds)
       => file = JsonFile(JsonDump(cache[last.inst]))
  /\ \A i \in Inst : \A id \in GoodIds :
       InCache(cache[i], id) =>
         /\ file.kind = "json"
         /\ InCache(JsonLoad(file.text), id)
         /\ JsonLoad(file.text).v[id] = cache[i].v[id]

\* The cache file holds a record for id.
OnFile(id) == file.kind = "json" /\ InCache(JsonLoad(file.text), id)

\* C11: a record the cache file holds is never removed: after any step of
\* the subcommand or of the template field, whichever instance writes, the
\* file still holds a record for every identifier it held before.
C11_RecordsNeverRemoved ==
  [][ \A id \in GoodIds \cup {IdC} : OnFile(id) => OnFile(id)' ]_vars

(***************************************************************************)
(* The chain of first backward relations the walk follows from area a,     *)
(* seen being the areas already looked up.  The walk goes on from a to its *)
(* first parent p when the lookup of a lists a backward relation and p has *)
(* a type and is no country with a code list.                              *)
(***************************************************************************)
GoesOn(a) ==
  /\ Parents(a) # <<>>
  /\ world.area[Parents(a)[1].to].type # ""
  /\ ~(world.area[Parents(a)[1].to].type = "Country" /\ world.area[Parents(a)[1].to].hasCodes)

\* The areas the walk looks up, as long as it meets none twice.
RECURSIVE LookedUp(_, _)
LookedUp(a, seen) ==
  IF a \in seen THEN seen
  ELSE IF GoesOn(a) THEN LookedUp(Parents(a)[1].to, seen \cup {a})
  ELSE seen \cup {a}

\* The chain comes back to an area it has left.
RECURSIVE Cyclic(_, _)
Cyclic(a, seen) ==
  IF a \in seen THEN TRUE
  ELSE IF GoesOn(a) THEN Cyclic(Parents(a)[1].to, seen \cup {a})
  ELSE FALSE

\* C12 as stated: on an acyclic chain the walk makes one get_area_by_id
\* call per area it looks up; on a chain that forms a cycle without a
\* country the walk goes on calling without bound, so no call that walks
\* such a cycle ever completes.
C12_CycleWalkUnbounded ==
  ResolvedByArea =>
    /\ ~Cyclic(ArtistArea, {})
    /\ last.area = Cardinality(LookedUp(ArtistArea, {}))

\* C12: on an acyclic chain the walk makes one get_area_by_id call per
\* area it looks up; on a chain that forms a cycle without a country it
\* makes one call per level until the recursion limit raises
\* RecursionError, which get_artist_country swallows: the call returns ''
\* and records the identifier with country ''.
C12_CycleWalkEndsAtRecursionLimit ==
  ResolvedByArea =>
    IF Cyclic(ArtistArea, {})
    THEN /\ last.area = MaxRecursion
         /\ last.ret = "" /\ last.exc = "" /\ ~crashed
         /\ InCache(cache["host"], IdA)
         /\ cache["host"].v[IdA].v["country"] = ""
    ELSE last.area = Cardinality(LookedUp(ArtistArea, {}))

C12_Witness ==
  /\ ResolvedByArea /\ Cyclic(ArtistArea, {})
  /\ Cardinality(LookedUp(ArtistArea, {})) = 3
  /\ last.area = MaxRecursion /\ last.ret = ""

\* The walk from the artist's area ends with an exception.
WalkFails == _country_from_area(world, world.artist[IdA].v["area"]).t = "raise"

\* The failures of the walk at the artist's own area: its lookup raises,
\* or it is the top of the hierarchy and has no code list or an empty one.
TopFails ==
  \/ world.area[ArtistArea].resp = "raise"
  \/ /\ world.area[ArtistArea].resp = "ok" /\ Parents(ArtistArea) = <<>>
     /\ (~world.area[ArtistArea].hasCodes \/ world.area[ArtistArea].codes = <<>>)

\* C13: a failure of the area walk is swallowed: the call returns '' and
\* caches a record with country '', the artist's name and no error field,
\* and the next call for the identifier makes no remote call.
C13_WalkFailureSwallowed ==
  (ResolvedByArea /\ (WalkFails \/ TopFails)) =>
    /\ last.ret = "" /\ last.exc = "" /\ ~crashed
    /\ InCache(cache["host"], IdA)
    /\ cache["host"].v[IdA].t = "dict"
    /\ DOMAIN cache["host"].v[IdA].v = {"country", "cached", "name"}
    /\ cache["host"].v[IdA].v["country"] = ""
    /\ cache["host"].v[IdA].v["name"] = Get(world.artist[IdA].v, "name", "")
    /\ \E next \in {get_artist_country(cache["host"], file, disk, world, now, IdA)} :
         next.artist = 0 /\ next.area = 0 /\ next.ret = ""

C13_Witness ==
  /\ ResolvedByArea /\ last.area = 2 /\ last.ret = ""
  /\ Parents(ArtistArea) # <<>>
  /\ world.area[Parents(ArtistArea)[1].to].resp = "raise"
  /\ cache["host"].v[IdA].v["name"] = "Ann"
  /\ "error" \notin DOMAIN cache["host"].v[IdA].v

\* The step is one get_artist_country call, by the instance last'.inst.
OneCall == last'.op \in {"call", "tmpl"} /\ last'.calls = 1 /\ disk' = disk

\* The cache file cannot be loaded: it is missing, unreadable or corrupt.
NothingToLoad == file.kind \in {"missing", "garbage"} \/ ~disk.readable

\* C14: an instance reads the cache file at most once, on its first call
\* that needs the cache: a call with a malformed identifier does not load
\* it, the first call with a well-formed one does, and no later call of
\* the instance opens the file, also when the load gave an empty mapping;
\* a missing, unreadable or corrupt file gives an empty mapping and the
\* identifier is resolved and recorded as usual.
C14_LoadedAtMostOnce ==
  [][ /\ (OneCall /\ cache[last'.inst].t # "None") => ~last'.read
      /\ (last'.op = "subcommand" /\ disk' = disk /\ cache["host"].t # "None")
           => ~last'.read
      /\ (OneCall /\ cache[last'.inst].t = "None" /\ last'.id \in BadIds)
           => (~last'.read /\ cache'[last'.inst].t = "None")
      /\ (OneCall /\ cache[last'.inst].t = "None" /\ last'.id \in GoodIds)
           => /\ cache'[last'.inst].t = "dict"
              /\ last'.read = (file.kind # "missing")
              /\ NothingToLoad =>
                   /\ DOMAIN cache'[last'.inst].v = {last'.id}
                   /\ last'.artist = 1 /\ last'.exc = "" ]_vars

\* A second call of an instance whose first load found a corrupt file.
C14_Witness ==
  /\ last.op = "call" /\ last.calls = 1 /\ last.id = IdB /\ ~last.read /\ ~last.hit
  /\ last.artist = 1
  /\ DOMAIN cache["host"].v = {IdA, IdB}
  /\ cache["tmpl"].t = "None"
  /\ file.kind = "garbage" /\ disk.write = "denied"

\* The mapping a call of instance i works on: its cache, loaded if need be.
Before(i) == load_cache(cache[i], file, disk).cache

\* C15: a get_artist_country call changes the mapping it works on by at
\* most inserting one record, under the identifier asked for: every
\* record present before is still there, unchanged; a call answered from
\* the cache changes neither the mapping nor the cache file, and nor does
\* a call with a malformed identifier.
C15_AtMostOneInsert ==
  [][ OneCall =>
        \E b \in {Before(last'.inst)} : \E a \in {cache'[last'.inst]} :
          IF last'.id \in BadIds
          THEN a = cache[last'.inst] /\ file' = file
          ELSE /\ a.t = "dict" /\ b.t = "dict"
               /\ DOMAIN a.v = DOMAIN b.v \cup {last'.id}
               /\ \A k \in DOMAIN b.v : a.v[k] = b.v[k]
               /\ last'.hit = (last'.id \in DOMAIN b.v)
               /\ last'.hit => (a = b /\ file' = file) ]_vars

\* A call has inserted IdB next to the older record of IdA.
C15_Witness ==
  /\ last.op = "call" /\ last.calls = 1 /\ last.id = IdB /\ ~last.hit /\ last.changed
  /\ DOMAIN cache["host"].v = {IdA, IdB}
  /\ cache["host"].v[IdA] = DictEntry(OldRecord)

\* The country in the record instance i holds for id.
CountryIn(c, id) == Get(c.v[id].v, "country", "")

\* C16: on one instance resolution is idempotent: the first, uncached call
\* for an identifier returns the country it stores in the record; the
\* record's country never changes while the instance lives; and a call
\* answered from the cache returns the record's country, without a remote
\* call and so whatever the service would answer.
C16_ResolutionIdempotent ==
  [][ /\ (OneCall /\ last'.id \in GoodIds /\ ~last'.hit /\ last'.exc = "")
           => /\ InCache(cache'[last'.inst], last'.id)
              /\ CountryIn(cache'[last'.inst], last'.id) = last'.ret
      /\ \A i \in Inst : \A id \in GoodIds :
           (InCache(cache[i], id) /\ cache'[i].t # "None")
             => /\ InCache(cache'[i], id)
                /\ CountryIn(cache'[i], id) = CountryIn(cache[i], id)
      /\ (OneCall /\ InCache(cache[last'.inst], last'.id))
           => /\ last'.ret = CountryIn(cache[last'.inst], last'.id)
              /\ last'.artist = 0 /\ last'.area = 0
              /\ \A w \in Worlds :
                   get_artist_country(cache[last'.inst], file, disk, w, now, last'.id).ret
                     = last'.ret ]_vars

\* A call answered from a record this process made, by a service that
\* spells the country in capitals.
C16_Witness ==
  /\ last.op = "call" /\ last.calls = 1 /\ last.hit /\ last.id = IdA
  /\ IdA \in queried /\ last.ret = "us"
  /\ cache["host"].v[IdA].v["name"] = "Ann"
  /\ world.artist[IdA].v["country"] = "US"

\* C17: when the item already carries a non-empty artist_country, the
\* template field returns exactly that value, loads no cache, makes no
\* remote call and writes neither the item nor the cache nor the file.
C17_CarriedValueReturned ==
  [][ \A k \in ItemIx :
        (Truthy(items[k].artist_country) /\ TmplCountry(k)) =>
          /\ last'.op = "tmpl" /\ last'.ret = items[k].artist_country
          /\ last'.calls = 0 /\ last'.artist = 0 /\ last'.area = 0 /\ ~last'.read
          /\ cache' = cache /\ file' = file /\ items' = items
          /\ plugin_instance' = plugin_instance /\ ~crashed' ]_vars

C17_Witness ==
  /\ last.op = "tmpl" /\ last.calls = 0 /\ last.ret = "fr"
  /\ items[2].stored = "fr" /\ items[2].stores = 0
  /\ cache["tmpl"].t = "None" /\ ~plugin_instance
  /\ file.kind = "json"

====
